---------------------------- MODULE Spec2Model ----------------------------
(***************************************************************************)
(* Resume analysis pipeline: rubric (barem) generation with cache and      *)
(* retry/backoff (utils/barem_generator.py), the dual-format report parser *)
(* (utils/report_parser.py) and the batch orchestrator (main.py).          *)
(*                                                                         *)
(* Three specifications share the variables below:                         *)
(*   SpecBarem  repeated get_barem calls against one rubric cache          *)
(*   SpecParse  parse_report applied to one report file                    *)
(*   Spec       one analyze_multiple_resumes batch                         *)
(***************************************************************************)
EXTENDS Integers, Sequences, FiniteSets, TLC

(***************************************************************************)
(* Bounds of the model.                                                    *)
(***************************************************************************)
\* longest generation-service response, in tokens
MaxRespLen == 5
\* bits of floating-point significand (53 for Python's float)
MantissaBits == 2
\* most candidates in one batch
MaxCands == 3

(***************************************************************************)
(* Small helpers.                                                          *)
(***************************************************************************)
RECURSIVE Pow2(_)
Pow2(n) == IF n = 0 THEN 1 ELSE 2 * Pow2(n - 1)

SeqsUpTo(S, n) == UNION {[1..k -> S] : k \in 0..n}

(***************************************************************************)
(* JSON text and values (barem_generator.py).  A text is a sequence of     *)
(* tokens; a member token stands for one  "section": weight  pair.         *)
(* A value is Python's None or a dict, kept as the ordered list of its     *)
(* (key, weight) items.                                                    *)
(***************************************************************************)
MemberTokens == {"e60", "e40", "s40"}

MemKey(t) == IF t = "s40" THEN "skills" ELSE "experience"

MemWeight(t) == IF t = "e60" THEN 60 ELSE 40

Item(t) == [k |-> MemKey(t), w |-> MemWeight(t)]

TokOf(it) == CHOOSE t \in MemberTokens : Item(t) = it

NoneVal == [t |-> "none", m |-> <<>>]

Dict(items) == [t |-> "dict", m |-> items]

\* Python truthiness of a rubric value: None and {} are falsy
Truthy(v) == v.t = "dict" /\ Len(v.m) > 0

\* dict[k] = w : an existing key keeps its position and takes the new value
DictSet(items, it) ==
    IF \E i \in 1..Len(items) : items[i].k = it.k
    THEN [i \in 1..Len(items) |-> IF items[i].k = it.k THEN it ELSE items[i]]
    ELSE Append(items, it)

RECURSIVE DictOf(_)
DictOf(toks) ==
    IF toks = <<>> THEN <<>>
    ELSE DictSet(DictOf(SubSeq(toks, 1, Len(toks) - 1)), Item(toks[Len(toks)]))

\* the well-formed bodies of an object:  member ("," member)*
IsMemberList(inner) ==
    /\ Len(inner) % 2 = 1
    /\ \A i \in 1..Len(inner) :
          IF i % 2 = 1 THEN inner[i] \in MemberTokens ELSE inner[i] = ","

MembersOf(inner) == [i \in 1..((Len(inner) + 1) \div 2) |-> inner[2 * i - 1]]

\* json.loads / json.load : ok = FALSE stands for JSONDecodeError
JsonLoads(text) ==
    IF text = <<"null">> THEN [ok |-> TRUE, val |-> NoneVal]
    ELSE IF Len(text) >= 2 /\ text[1] = "{" /\ text[Len(text)] = "}"
    THEN LET inner == SubSeq(text, 2, Len(text) - 1) IN
         IF inner = <<>> THEN [ok |-> TRUE, val |-> Dict(<<>>)]
         ELSE IF IsMemberList(inner)
              THEN [ok |-> TRUE, val |-> Dict(DictOf(MembersOf(inner)))]
              ELSE [ok |-> FALSE, val |-> NoneVal]
    ELSE [ok |-> FALSE, val |-> NoneVal]

RECURSIVE JoinItems(_)
JoinItems(items) ==
    IF items = <<>> THEN <<>>
    ELSE IF Len(items) = 1 THEN <<TokOf(items[1])>>
    ELSE <<TokOf(items[1]), ",">> \o JoinItems(Tail(items))

\* JsonDumps that writes only the first item of a dict
JsonDumpsFirstItem(v) ==
    IF v.t = "none" THEN <<"null">>
    ELSE <<"{">> \o JoinItems(SubSeq(v.m, 1, 1)) \o <<"}">>

\* json.dump(barem, f, ensure_ascii=False, indent=2)
JsonDumps(v) ==
    IF v.t = "none" THEN <<"null">>
    ELSE <<"{">> \o JoinItems(v.m) \o <<"}">>

(***************************************************************************)
(* Job titles and the cache key (barem_generator.py, _sanitize_job_title). *)
(* A title is a sequence of characters.                                    *)
(***************************************************************************)
TitleChars == {"A", "a", "/"}

Titles == {<<c>> : c \in TitleChars}

Descriptions == {"d1", "d2"}

\* str.lower() on one character
LowerChar(c) == IF c = "A" THEN "a" ELSE c

\* the class [\w\-_\. ] of the substitution pattern
KeptChars == {"A", "a", "_", "-", ".", " "}

_sanitize_job_title(job_title) ==
    [i \in 1..Len(job_title) |->
        IF LowerChar(job_title[i]) \in KeptChars
        THEN LowerChar(job_title[i]) ELSE "_"]

\* the cache files  barem_<key>.json  that the titles can name
Keys == {_sanitize_job_title(t) : t \in Titles}

(***************************************************************************)
(* The rubric cache: one entry per key.  kind = "absent" (no file),        *)
(* "unreadable" (a path that exists and cannot be opened) or "file".       *)
(***************************************************************************)
AbsentEntry == [kind |-> "absent", text |-> <<>>]

UnreadableEntry == [kind |-> "unreadable", text |-> <<>>]

FileEntry(text) == [kind |-> "file", text |-> text]

\* entries a cache directory may hold before the first call
InitEntries ==
    { UnreadableEntry,
      FileEntry(<<"{">>),
      FileEntry(<<"null">>),
      FileEntry(<<"{", "}">>),
      FileEntry(<<"{", "e60", ",", "s40", "}">>) }

\* CacheLoad answering None for an entry it cannot read or parse
CacheLoadCorruptIsNone(entry) ==
    IF entry.kind = "absent" THEN [ok |-> FALSE, val |-> NoneVal]
    ELSE IF entry.kind = "file" /\ JsonLoads(entry.text).ok
    THEN [ok |-> TRUE, val |-> JsonLoads(entry.text).val]
    ELSE [ok |-> TRUE, val |-> NoneVal]

\* get_barem, "Try to load from cache": ok = FALSE when the file is absent,
\* cannot be opened or does not hold JSON
CacheLoad(entry) ==
    IF entry.kind = "file" /\ JsonLoads(entry.text).ok
    THEN [ok |-> TRUE, val |-> JsonLoads(entry.text).val]
    ELSE [ok |-> FALSE, val |-> NoneVal]

\* outcomes of open(cache_filename, 'w') followed by json.dump
WriteOutcomes == {"ok", "openfail", "partial"}

\* SaveBarem writing whatever the generation returned
SaveBaremAlways(c, key, barem, w) ==
    IF w = "openfail" THEN c
    ELSE IF w = "ok" THEN [c EXCEPT ![key] = FileEntry(JsonDumps(barem))]
    ELSE [c EXCEPT ![key] = FileEntry(SubSeq(JsonDumps(barem), 1, 1))]

\* get_barem, "Save to cache": only a truthy rubric is written; a failed
\* write is swallowed, leaving the old entry or a truncated file
SaveBarem(c, key, barem, w) ==
    IF ~Truthy(barem) \/ w = "openfail" THEN c
    ELSE IF w = "ok" THEN [c EXCEPT ![key] = FileEntry(JsonDumps(barem))]
    ELSE [c EXCEPT ![key] = FileEntry(SubSeq(JsonDumps(barem), 1, 1))]

(***************************************************************************)
(* The generation call and its post-processing                             *)
(* (_generate_barem_from_gemini).                                          *)
(***************************************************************************)
max_retries == 3

base_delay == 1

\* error texts, as sequences of words
MsgNoKey == <<"GEMINI_API_KEY", "not", "found">>

MsgBadJson == <<"Expecting", "value">>

ServiceErrors ==
    { <<"503", "UNAVAILABLE">>,
      <<"The", "model", "is", "Overloaded">>,
      <<"401", "Unauthorized">> }

LowerWord(w) == IF w = "Overloaded" THEN "overloaded" ELSE w

\* "503" in error_msg or "overloaded" in error_msg.lower()
IsOverload(error_msg) ==
    \E i \in 1..Len(error_msg) :
        error_msg[i] = "503" \/ LowerWord(error_msg[i]) = "overloaded"

RespTokens == {"{", "}", ",", "txt"} \cup MemberTokens

Responses == SeqsUpTo(RespTokens, MaxRespLen)

\* re.search(r'\{.*\}', text, re.DOTALL): from the first "{" to the last "}"
SearchBraces(text) ==
    LET opens == {i \in 1..Len(text) : text[i] = "{"}
        closes == {j \in 1..Len(text) : text[j] = "}"}
    IN  IF opens = {} THEN [found |-> FALSE, span |-> <<>>]
        ELSE LET i == CHOOSE x \in opens : \A y \in opens : x <= y
                 after == {j \in closes : j > i}
             IN  IF after = {} THEN [found |-> FALSE, span |-> <<>>]
                 ELSE LET j == CHOOSE x \in after : \A y \in after : x >= y
                      IN  [found |-> TRUE, span |-> SubSeq(text, i, j)]

\* what one attempt does with a response text:
\*   "ok"      a rubric was parsed and is returned
\*   "nomatch" no {...} span: the call returns None
\*   "raise"   json.loads raised
PostProcess(text) ==
    LET mt == SearchBraces(text) IN
    IF ~mt.found THEN [kind |-> "nomatch", val |-> NoneVal, msg |-> <<>>]
    ELSE IF JsonLoads(mt.span).ok
         THEN [kind |-> "ok", val |-> JsonLoads(mt.span).val, msg |-> <<>>]
         ELSE [kind |-> "raise", val |-> NoneVal, msg |-> MsgBadJson]

ResponseOutcomes == {PostProcess(r) : r \in Responses}

Raise(msg) == [kind |-> "raise", val |-> NoneVal, msg |-> msg]

\* what the try block of one attempt can do, given the environment
TryOutcomes(key_set) ==
    IF ~key_set THEN {Raise(MsgNoKey)}
    ELSE {Raise(m) : m \in ServiceErrors} \cup ResponseOutcomes

(***************************************************************************)
(* Floating point: times are counted in units of 2^-MantissaBits seconds   *)
(* and a sum is rounded to MantissaBits significant bits, ties to even.    *)
(***************************************************************************)
Second == Pow2(MantissaBits)

RECURSIVE Log2Floor(_)
Log2Floor(s) == IF s < 2 THEN 0 ELSE 1 + Log2Floor(s \div 2)

Ulp(s) ==
    IF Log2Floor(s) >= MantissaBits
    THEN Pow2(Log2Floor(s) - MantissaBits + 1) ELSE 1

RoundFloat(s) ==
    LET q == Ulp(s)
        lo == (s \div q) * q
    IN  IF 2 * (s - lo) < q THEN lo
        ELSE IF 2 * (s - lo) > q THEN lo + q
        ELSE IF (lo \div q) % 2 = 0 THEN lo ELSE lo + q

\* random.uniform(0, 1) = 0 + (1 - 0) * random(), random() in [0, 1)
Jitters == 0..(Second - 1)

\* BackoffDelay without the exponential growth
BackoffDelayConstant(attempt_no, jitter) ==
    RoundFloat(base_delay * Second + jitter)

\* delay = base_delay * (2 ** attempt) + random.uniform(0, 1)
BackoffDelay(attempt_no, jitter) ==
    RoundFloat(base_delay * Pow2(attempt_no) * Second + jitter)

\* OnException without the check that an attempt is left
OnExceptionSleepsOnLast(attempt_no, error_msg) ==
    IF IsOverload(error_msg) THEN "sleep"
    ELSE IF attempt_no = max_retries - 1 THEN "return"
    ELSE "next"

\* the except block: "sleep" (wait and retry), "return" (give up with None)
\* or "next" (fall out of the except block into the next loop iteration)
OnException(attempt_no, error_msg) ==
    IF IsOverload(error_msg) /\ attempt_no < max_retries - 1 THEN "sleep"
    ELSE IF attempt_no = max_retries - 1 THEN "return"
    ELSE "next"

(***************************************************************************)
(* State of the rubric generator.                                          *)
(***************************************************************************)
VARIABLES
    apiKey,     \* whether GEMINI_API_KEY is set in the environment
    cache,      \* the cache directory: key -> entry
    bpc,        \* "idle", "gen" (inside the retry loop) or "returned"
    btitle,     \* job_title of the running get_barem call
    bdesc,      \* job_description of the running call
    attempt,    \* loop index of _generate_barem_from_gemini
    genCalls,   \* generate_content invocations of the running call
    log,        \* how each attempt of the running call ended
    delays,     \* the time.sleep durations of the running call
    result,     \* the value the call returned
    served,     \* "none", "cache" or "generated"
    cache0,     \* the cache as the running call found it
    stored      \* key -> the rubric an earlier call generated and persisted

baremVars ==
    <<apiKey, cache, bpc, btitle, bdesc, attempt, genCalls, log, delays,
      result, served, cache0, stored>>

NotStored == [set |-> FALSE, val |-> NoneVal]

\* cache directories before the first call: at most one entry exists
InitCaches ==
    {[k \in Keys |-> AbsentEntry]}
    \cup {[k \in Keys |-> IF k = k0 THEN e ELSE AbsentEntry] :
             k0 \in Keys, e \in InitEntries}

BaremIdle ==
    /\ bpc = "idle"
    /\ btitle = <<>>
    /\ bdesc = "d1"
    /\ attempt = 0
    /\ genCalls = 0
    /\ log = <<>>
    /\ delays = <<>>
    /\ result = NoneVal
    /\ served = "none"
    /\ cache0 = cache

InitBarem ==
    /\ apiKey \in BOOLEAN
    /\ cache \in InitCaches
    /\ stored = [k \in Keys |-> NotStored]
    /\ BaremIdle

CallKey == _sanitize_job_title(btitle)

\* GetBaremStart with a freshness check: the entry is served to the
\* description "d1" only
GetBaremStartFresh(job_title, job_description) ==
    /\ bpc = "idle"
    /\ btitle' = job_title
    /\ bdesc' = job_description
    /\ cache0' = cache
    /\ LET ld == CacheLoad(cache[_sanitize_job_title(job_title)]) IN
       IF ld.ok /\ job_description = "d1"
       THEN /\ bpc' = "returned"
            /\ result' = ld.val
            /\ served' = "cache"
       ELSE /\ bpc' = "gen"
            /\ result' = NoneVal
            /\ served' = "none"
    /\ UNCHANGED <<apiKey, cache, attempt, genCalls, log, delays, stored>>

\* get_barem up to the generation call: serve the cache or start generating
GetBaremStart(job_title, job_description) ==
    /\ bpc = "idle"
    /\ btitle' = job_title
    /\ bdesc' = job_description
    /\ cache0' = cache
    /\ LET ld == CacheLoad(cache[_sanitize_job_title(job_title)]) IN
       IF ld.ok
       THEN /\ bpc' = "returned"
            /\ result' = ld.val
            /\ served' = "cache"
       ELSE /\ bpc' = "gen"
            /\ result' = NoneVal
            /\ served' = "none"
    /\ UNCHANGED <<apiKey, cache, attempt, genCalls, log, delays, stored>>

\* how an attempt ended, for the log
AttemptKind(o) ==
    IF o.kind # "raise" THEN o.kind
    ELSE IF o.msg = MsgNoKey THEN "nokey"
    ELSE IF o.msg = MsgBadJson THEN "badjson"
    ELSE IF IsOverload(o.msg) THEN "overload"
    ELSE "error"

\* one iteration of the retry loop; when the loop ends, the rest of
\* get_barem (save to cache, return) runs in the same step
GenerateAttempt(o, jitter, w) ==
    LET act == IF o.kind = "raise" THEN OnException(attempt, o.msg)
               ELSE "return"
        barem == IF o.kind = "ok" THEN o.val ELSE NoneVal
        leaves == act = "return" \/ attempt + 1 >= max_retries
    IN  /\ log' = Append(log, AttemptKind(o))
        /\ genCalls' = IF o.msg = MsgNoKey THEN genCalls ELSE genCalls + 1
        /\ delays' = IF act = "sleep"
                     THEN Append(delays, BackoffDelay(attempt, jitter))
                     ELSE delays
        /\ IF leaves
           THEN /\ bpc' = "returned"
                /\ result' = barem
                /\ served' = "generated"
                /\ cache' = SaveBarem(cache, CallKey, barem, w)
                /\ attempt' = attempt
           ELSE /\ bpc' = "gen"
                /\ attempt' = attempt + 1
                /\ UNCHANGED <<result, served, cache>>

Attempt ==
    /\ bpc = "gen"
    /\ \E o \in TryOutcomes(apiKey), jitter \in Jitters, w \in WriteOutcomes :
          GenerateAttempt(o, jitter, w)
    /\ UNCHANGED <<apiKey, btitle, bdesc, cache0, stored>>

\* whether the returned rubric was written to the cache file
Persisted ==
    /\ served = "generated"
    /\ Truthy(result)
    /\ cache[CallKey] = FileEntry(JsonDumps(result))
    /\ cache[CallKey] # cache0[CallKey]

\* the caller takes the result; the generator is ready for the next call
NextCall ==
    /\ bpc = "returned"
    /\ bpc' = "idle"
    /\ stored' = IF Persisted
                 THEN [stored EXCEPT ![CallKey] = [set |-> TRUE, val |-> result]]
                 ELSE stored
    /\ btitle' = <<>>
    /\ bdesc' = "d1"
    /\ attempt' = 0
    /\ genCalls' = 0
    /\ log' = <<>>
    /\ delays' = <<>>
    /\ result' = NoneVal
    /\ served' = "none"
    /\ cache0' = cache
    /\ UNCHANGED <<apiKey, cache>>

(***************************************************************************)
(* Report contents (utils/report_parser.py).                               *)
(*                                                                         *)
(* A score is a Python value: a number (counted in tenths), a string (a    *)
(* sequence of characters) or None.                                        *)
(***************************************************************************)
NumScore(n) == [t |-> "num", n |-> n, s |-> <<>>]

StrScore(s) == [t |-> "str", n |-> 0, s |-> s]

NoneScore == [t |-> "none", n |-> 0, s |-> <<>>]

\* a key of a JSON object that is not there
Missing == [t |-> "missing", n |-> 0, s |-> <<>>]

\* dict.get(key, default) on an optional scalar
GetOr(field, default) == IF field.t = "missing" THEN default ELSE field

\* a JSON string / the text of a Python str, as one word
Str(w) == [t |-> "str", n |-> 0, s |-> <<w>>]

\* values the overall_score of a structured report may hold
JsonScores ==
    { Missing, NoneScore, NumScore(90), NumScore(420),
      StrScore(<<"9">>), StrScore(<<"1", "0">>) }

JsonNames == {Missing, Str("Zed")}

JsonRecommendations == {Missing, Str("RECOMMENDED")}

\* executive_summary: absent, null, a string, or an object
NoSection == [t |-> "missing", name |-> Missing, score |-> Missing, rec |-> Missing]

ExecSummaries ==
    { NoSection, [NoSection EXCEPT !.t = "null"], [NoSection EXCEPT !.t = "str"] }
    \cup [t : {"dict"}, name : JsonNames, score : JsonScores,
          rec : JsonRecommendations]

\* an element of a strengths or gaps list: an object holding the named
\* sub-field, an object without it, or a plain string
Elem(t, s) == [t |-> t, s |-> s]

\* a list-valued field: absent, null, a number, a string or a list
ListField(t, items) == [t |-> t, items |-> items]

NoList == ListField("missing", <<>>)

ListFields ==
    { NoList, ListField("null", <<>>), ListField("num", <<>>),
      ListField("str", <<Elem("str", "o"), Elem("str", "k")>>),
      ListField("list", <<>>),
      ListField("list", <<Elem("dict", "Python"), Elem("nokey", ""),
                         Elem("str", "SQL"), Elem("str", "")>>) }

\* strengths_and_differentiators / gaps_and_risk_assessment
NoListSection == [t |-> "missing", first |-> NoList, second |-> NoList]

ListSections ==
    { NoListSection, [NoListSection EXCEPT !.t = "null"],
      [NoListSection EXCEPT !.t = "str"] }
    \cup [t : {"dict"}, first : ListFields, second : {NoList, ListField("list",
             <<Elem("dict", "Go")>>)}]

\* top-level keys of a report named like fields of the record: "score"
\* (absent or a value) and "valid" (absent or false)
Own(score, valid) == [score |-> score, valid |-> valid]

NoOwn == Own(Missing, "missing")

Owns == {NoOwn, Own(NumScore(30), "missing"), Own(Missing, "false")}

\* what json.loads makes of a report: the type of the top-level value and,
\* for an object, its sections and its other top-level keys
NotAnObject(top) ==
    [top |-> top, es |-> NoSection, sd |-> NoListSection, gd |-> NoListSection,
     own |-> NoOwn]

JsonDocs ==
    { NotAnObject("null"), NotAnObject("list"), NotAnObject("str") }
    \cup [top : {"dict"}, es : ExecSummaries, sd : ListSections, own : Owns,
          gd : {NoListSection, [NoListSection EXCEPT !.t = "null"],
                [t |-> "dict", first |-> ListField("list", <<Elem("dict", "Rust")>>),
                 second |-> ListField("num", <<>>)],
                [t |-> "dict", first |-> ListField("list", <<Elem("str", "Rust")>>),
                 second |-> NoList]}]

(***************************************************************************)
(* Free-text reports: a sequence of lines.  A line carries a label, the    *)
(* characters a [\d\.]+ group would capture after the label, and whether   *)
(* "/10" follows them.                                                     *)
(***************************************************************************)
Line(label, cap, ten) == [label |-> label, cap |-> cap, ten |-> ten]

TextLine == Line("text", <<>>, FALSE)

MdLines ==
    { TextLine,
      Line("**Overall Score:**", <<"7", ".", "5">>, TRUE),
      Line("Overall Score:", <<"9", "5">>, FALSE),
      Line("Final Combined Score:", <<"1", ".", "2", ".", "3">>, TRUE),
      Line("## Final Combined Score", <<"8">>, FALSE),
      Line("**Decision:**", <<>>, FALSE) }

MdTexts ==
    {<<>>} \cup {<<l>> : l \in MdLines}
    \cup {<<Line("Final Combined Score:", <<"1", ".", "2", ".", "3">>, TRUE), l>> :
             l \in MdLines}

\* a report file's content: free text (json = FALSE) or a JSON document
MdContent(lines) == [json |-> FALSE, doc |-> NotAnObject("null"), lines |-> lines]

JsonContent(doc) == [json |-> TRUE, doc |-> doc, lines |-> <<>>]

\* a JSON document whose text also holds lines the free-text patterns match
\* (inside its string values)
JsonTextContent(doc, lines) == [json |-> TRUE, doc |-> doc, lines |-> lines]

ScoreLikeLines ==
    << Line("Overall Score:", <<"9", "5">>, FALSE),
       Line("**Decision:**", <<"HIRE">>, FALSE) >>

JsonWithText ==
    { JsonTextContent(d, ScoreLikeLines) :
        d \in { NotAnObject("str"),
                [top |-> "dict", es |-> NoSection, sd |-> NoListSection,
                 gd |-> NoListSection, own |-> NoOwn],
                [top |-> "dict",
                 es |-> [t |-> "dict", name |-> Missing,
                         score |-> NumScore(90), rec |-> Str("RECOMMENDED")],
                 sd |-> NoListSection, gd |-> NoListSection,
                 own |-> NoOwn] } }

Contents ==
    {MdContent(x) : x \in MdTexts} \cup {JsonContent(d) : d \in JsonDocs}
    \cup JsonWithText

\* a report path: no file, a path that cannot be read, or a file
NoReport == [kind |-> "absent", content |-> MdContent(<<>>)]

UnreadableReport == [kind |-> "unreadable", content |-> MdContent(<<>>)]

ReportFile(c) == [kind |-> "file", content |-> c]

(***************************************************************************)
(* The report parser (utils/report_parser.py).  A record is the dict that  *)
(* parse_report returns; texts are sequences of words.                     *)
(***************************************************************************)
\* the keys a record has besides its own fields: the sections of a
\* structured report merged into it
NoExtra == [es |-> NoSection, sd |-> NoListSection, gd |-> NoListSection]

Record(name, valid, error, score, rec, strengths, gaps, content) ==
    [candidate_name |-> name, valid |-> valid, error |-> error,
     score |-> score, recommendation |-> rec, strengths |-> strengths,
     gaps |-> gaps, report_content |-> content, extra |-> NoExtra]

\* the result dict as parse_report and its helpers first build it
FreshRecord(name, content) ==
    Record(name, TRUE, <<>>, NumScore(0), <<"Unknown">>, <<>>, <<>>, content)

\* a helper's outcome: a record, or an exception on its way up
Returned(rec) == [raised |-> FALSE, exc |-> "", msg |-> "", rec |-> rec]

Raised(exc, msg) ==
    [raised |-> TRUE, exc |-> exc, msg |-> msg,
     rec |-> FreshRecord(<<>>, "empty")]

\* GetFails raising for a key that is absent too
GetFailsOnMissing(t) == t \in {"null", "str", "list", "missing"}

\* x.get(...) on a value that is no dict
GetFails(t) == t \in {"null", "str", "list"}

NoGetMessage(t) ==
    IF t = "null" THEN "'NoneType' object has no attribute 'get'"
    ELSE IF t = "str" THEN "'str' object has no attribute 'get'"
    ELSE "'list' object has no attribute 'get'"

\* "for x in field" on a value that cannot be iterated
IterFails(field) == field.t \in {"null", "num"}

NotIterableMessage(field) ==
    IF field.t = "null" THEN "'NoneType' object is not iterable"
    ELSE "'int' object is not iterable"

\* one loop of _parse_json_report: x.get(key, '') for an object, str(x)
\* otherwise
Collect(field) ==
    [i \in 1..Len(field.items) |->
        IF field.items[i].t = "nokey" THEN "" ELSE field.items[i].s]

\* [s for s in strengths if s]
NonEmpty(strs) == SelectSeq(strs, LAMBDA x : x # "")

\* the first statement of _parse_json_report that raises, if any
JsonFailure(doc) ==
    IF GetFails(doc.top) THEN Raised("AttributeError", NoGetMessage(doc.top))
    ELSE IF GetFails(doc.es.t)
         THEN Raised("AttributeError", NoGetMessage(doc.es.t))
    ELSE IF GetFails(doc.sd.t)
         THEN Raised("AttributeError", NoGetMessage(doc.sd.t))
    ELSE IF IterFails(doc.sd.first)
         THEN Raised("TypeError", NotIterableMessage(doc.sd.first))
    ELSE IF IterFails(doc.sd.second)
         THEN Raised("TypeError", NotIterableMessage(doc.sd.second))
    ELSE IF GetFails(doc.gd.t)
         THEN Raised("AttributeError", NoGetMessage(doc.gd.t))
    ELSE IF IterFails(doc.gd.first)
         THEN Raised("TypeError", NotIterableMessage(doc.gd.first))
    ELSE IF IterFails(doc.gd.second)
         THEN Raised("TypeError", NotIterableMessage(doc.gd.second))
    ELSE Returned(FreshRecord(<<>>, "empty"))

\* MergePayload keeping the extracted value of a field the record has
MergePayloadKeepsOwn(rec, doc) ==
    [rec EXCEPT !.extra = [es |-> doc.es, sd |-> doc.sd, gd |-> doc.gd]]

\* result.update(json_data): every top-level key of the report is set in
\* the record
MergePayload(rec, doc) ==
    [rec EXCEPT
        !.score = IF doc.own.score.t = "missing" THEN @ ELSE doc.own.score,
        !.valid = IF doc.own.valid = "missing" THEN @ ELSE FALSE,
        !.extra = [es |-> doc.es, sd |-> doc.sd, gd |-> doc.gd]]

_parse_json_report(doc, candidate_name) ==
    IF JsonFailure(doc).raised THEN JsonFailure(doc)
    ELSE Returned(MergePayload(
            Record(
                GetOr(doc.es.name, [Missing EXCEPT !.s = candidate_name]).s,
                TRUE, <<>>,
                GetOr(doc.es.score, NumScore(0)),
                GetOr(doc.es.rec, Str("Unknown")).s,
                NonEmpty(Collect(doc.sd.first) \o Collect(doc.sd.second)),
                NonEmpty(Collect(doc.gd.first) \o Collect(doc.gd.second)),
                "dumps"),
            doc))

(***************************************************************************)
(* Free-text extraction.                                                   *)
(***************************************************************************)
Digits == {"0", "1", "2", "3", "4", "5", "6", "7", "8", "9"}

DigitVal(c) ==
    CASE c = "0" -> 0 [] c = "1" -> 1 [] c = "2" -> 2 [] c = "3" -> 3
      [] c = "4" -> 4 [] c = "5" -> 5 [] c = "6" -> 6 [] c = "7" -> 7
      [] c = "8" -> 8 [] OTHER -> 9

RECURSIVE IntVal(_)
IntVal(ds) ==
    IF ds = <<>> THEN 0
    ELSE 10 * IntVal(SubSeq(ds, 1, Len(ds) - 1)) + DigitVal(ds[Len(ds)])

Dots(cap) == {i \in 1..Len(cap) : cap[i] = "."}

\* float(s) of a [\d\.]+ capture succeeds with at most one dot and a digit
FloatOk(cap) ==
    /\ Cardinality(Dots(cap)) <= 1
    /\ \E i \in 1..Len(cap) : cap[i] \in Digits

\* the value of float(s), in tenths
Tenths(cap) ==
    IF Dots(cap) = {} THEN 10 * IntVal(cap)
    ELSE LET d == CHOOSE i \in Dots(cap) : TRUE IN
         10 * IntVal(SubSeq(cap, 1, d - 1))
         + (IF d < Len(cap) THEN DigitVal(cap[d + 1]) ELSE 0)

\* labels the alternation of the first two score patterns finds in a line
GeneralLabels ==
    { "**Overall Score:**", "Overall Score:", "TOTAL WEIGHTED SCORE:",
      "Final Combined Score:", "**Final Combined Score:**",
      "## Final Combined Score:" }

BoldLabels == {"**Final Combined Score:**"}

HeaderLabels == {"## Final Combined Score", "## Final Combined Score:"}

\* the ordered pattern list of _extract_score
ScorePatterns ==
    << [labels |-> GeneralLabels, ten |-> TRUE],
       [labels |-> GeneralLabels, ten |-> FALSE],
       [labels |-> BoldLabels, ten |-> TRUE],
       [labels |-> BoldLabels, ten |-> FALSE],
       [labels |-> HeaderLabels, ten |-> TRUE],
       [labels |-> HeaderLabels, ten |-> FALSE] >>

LineMatches(pat, line) ==
    /\ line.label \in pat.labels
    /\ line.cap # <<>>
    /\ pat.ten => line.ten

\* re.search: the first line of the content the pattern matches (0: none)
FirstMatch(pat, lines) ==
    IF \E i \in 1..Len(lines) : LineMatches(pat, lines[i])
    THEN CHOOSE i \in 1..Len(lines) :
            /\ LineMatches(pat, lines[i])
            /\ \A j \in 1..(i - 1) : ~LineMatches(pat, lines[j])
    ELSE 0

RECURSIVE ScoreFrom(_, _)
ScoreFrom(k, lines) ==
    IF k > Len(ScorePatterns) THEN 0
    ELSE LET m == FirstMatch(ScorePatterns[k], lines) IN
         IF m # 0 /\ FloatOk(lines[m].cap) THEN Tenths(lines[m].cap)
         ELSE ScoreFrom(k + 1, lines)

\* _extract_score giving up (0.0) when the first matching pattern captured
\* something float() rejects
_extract_score_no_skip(lines) ==
    LET hit == {k \in 1..Len(ScorePatterns) : FirstMatch(ScorePatterns[k], lines) # 0}
    IN  IF hit = {} THEN 0
        ELSE LET k == CHOOSE x \in hit : \A y \in hit : x <= y
                 m == FirstMatch(ScorePatterns[k], lines)
             IN  IF FloatOk(lines[m].cap) THEN Tenths(lines[m].cap) ELSE 0

_extract_score(lines) == ScoreFrom(1, lines)

\* '**Decision:** ...' is tried first; "Unknown" when no label is found
_extract_recommendation(lines) ==
    IF \E i \in 1..Len(lines) :
          lines[i].label = "**Decision:**" /\ lines[i].cap # <<>>
    THEN lines[CHOOSE i \in 1..Len(lines) :
            /\ lines[i].label = "**Decision:**" /\ lines[i].cap # <<>>
            /\ \A j \in 1..(i - 1) :
                  ~(lines[j].label = "**Decision:**" /\ lines[j].cap # <<>>)].cap
    ELSE <<"Unknown">>

_parse_markdown_report(lines, candidate_name) ==
    Returned(Record(candidate_name, TRUE, <<>>,
                    NumScore(_extract_score(lines)),
                    _extract_recommendation(lines), <<>>, <<>>, "raw"))

(***************************************************************************)
(* parse_report.                                                           *)
(***************************************************************************)
\* OuterCatches with a handler for OSError only
OuterCatchesOSError(exc) == exc = "OSError"

\* "except Exception": every exception the parser can raise is one
OuterCatches(exc) == exc \in {"OSError", "AttributeError", "TypeError"}

\* "except json.JSONDecodeError"
InnerCatches(exc) == exc = "JSONDecodeError"

\* open(report_path).read()
ReadReport(file) ==
    IF file.kind = "file" THEN Returned(FreshRecord(<<>>, "raw"))
    ELSE Raised("OSError", "[Errno 13] Permission denied")

FailedRecord(name, error, content) ==
    Record(name, FALSE, error, NumScore(0), <<"Unknown">>, <<>>, <<>>, content)

\* TryParse looking for a free-text score before trying json.loads
TryParsePatternsFirst(file, candidate_name) ==
    IF ReadReport(file).raised
    THEN [paths |-> {}, read |-> FALSE, out |-> ReadReport(file)]
    ELSE IF file.content.json /\ _extract_score(file.content.lines) = 0
    THEN [paths |-> {"json"}, read |-> TRUE,
          out |-> _parse_json_report(file.content.doc, candidate_name)]
    ELSE [paths |-> {"markdown"}, read |-> TRUE,
          out |-> _parse_markdown_report(file.content.lines, candidate_name)]

\* the body of the try block: the paths taken and the outcome
TryParse(file, candidate_name) ==
    IF ReadReport(file).raised
    THEN [paths |-> {}, read |-> FALSE, out |-> ReadReport(file)]
    ELSE IF file.content.json
    THEN LET j == _parse_json_report(file.content.doc, candidate_name) IN
         IF j.raised /\ InnerCatches(j.exc)
         THEN [paths |-> {"json", "markdown"}, read |-> TRUE,
               out |-> _parse_markdown_report(file.content.lines, candidate_name)]
         ELSE [paths |-> {"json"}, read |-> TRUE, out |-> j]
    ELSE [paths |-> {"markdown"}, read |-> TRUE,
          out |-> _parse_markdown_report(file.content.lines, candidate_name)]

\* parse_report without the os.path.exists test
parse_report_unchecked(file, candidate_name) ==
    LET t == TryParse(file, candidate_name) IN
    IF ~t.out.raised THEN [paths |-> t.paths, out |-> t.out]
    ELSE IF OuterCatches(t.out.exc)
    THEN [paths |-> t.paths,
          out |-> Returned(FailedRecord(candidate_name,
                     <<"Error parsing report: ", t.out.msg>>,
                     IF t.read THEN "raw" ELSE "empty"))]
    ELSE [paths |-> t.paths, out |-> t.out]

parse_report(file, candidate_name) ==
    IF file.kind = "absent"
    THEN [paths |-> {},
          out |-> Returned(FailedRecord(candidate_name,
                     <<"Report file not found">>, "empty"))]
    ELSE parse_report_unchecked(file, candidate_name)

(***************************************************************************)
(* State of one parse_report call.                                         *)
(***************************************************************************)
VARIABLES
    ppc,        \* "ready" or "done"
    pfile,      \* the file at report_path
    pname,      \* candidate_name
    pout        \* paths taken and outcome of the call

parseVars == <<ppc, pfile, pname, pout>>

CandidateNames == {<<"x", "/">>, <<"x", "_">>}

ReportFiles == {NoReport, UnreadableReport} \cup {ReportFile(c) : c \in Contents}

NoOutcome == [paths |-> {}, out |-> Returned(FreshRecord(<<>>, "empty"))]

ParseIdle ==
    /\ ppc = "ready"
    /\ pfile = NoReport
    /\ pname = <<>>
    /\ pout = NoOutcome

InitParse ==
    /\ ppc = "ready"
    /\ pfile \in ReportFiles
    /\ pname \in CandidateNames
    /\ pout = NoOutcome

ParseReport ==
    /\ ppc = "ready"
    /\ ppc' = "done"
    /\ pout' = parse_report(pfile, pname)
    /\ UNCHANGED <<pfile, pname>>

(***************************************************************************)
(* The batch orchestrator (main.py).                                       *)
(***************************************************************************)
\* FileHandler.sanitize_filename: re.sub(r'[^\w\-_\. ]', '_', filename)
NameKeptChars == {"x", "y", "_", "-", ".", " "}

sanitize_filename(filename) ==
    [i \in 1..Len(filename) |->
        IF filename[i] \in NameKeptChars THEN filename[i] ELSE "_"]

\* the paths  reports/report_<sanitized name>.md
ReportPaths == {sanitize_filename(n) : n \in CandidateNames}

\* PDFValidator.validate_pdf: (is_valid, validation_message)
PdfOutcomes ==
    { [ok |-> TRUE, msg |-> <<"PDF is valid with 1 pages">>],
      [ok |-> FALSE, msg |-> <<"PDF has no pages">>],
      [ok |-> FALSE, msg |-> <<"PDF validation failed: ", "EOF marker not found">>] }

\* reports the evaluation engine writes in a batch
EngineContents ==
    { MdContent(<<Line("**Overall Score:**", <<"7", ".", "5">>, TRUE)>>),
      MdContent(<<TextLine>>),
      JsonContent([top |-> "dict",
                   es |-> [t |-> "dict", name |-> Missing,
                           score |-> StrScore(<<"9">>), rec |-> Str("RECOMMENDED")],
                   sd |-> NoListSection, gd |-> NoListSection,
                   own |-> NoOwn]),
      JsonContent([top |-> "dict",
                   es |-> [t |-> "dict", name |-> Missing,
                           score |-> StrScore(<<"1", "0">>), rec |-> Str("RECOMMENDED")],
                   sd |-> NoListSection, gd |-> NoListSection,
                   own |-> NoOwn]),
      JsonContent([top |-> "dict",
                   es |-> [t |-> "dict", name |-> Missing,
                           score |-> NoneScore, rec |-> Missing],
                   sd |-> NoListSection, gd |-> NoListSection,
                   own |-> NoOwn]) }

\* Resume(...).crew().kickoff(...): raises, or returns having written
\* report.md (wrote) or not
EngineOutcomes ==
    { [raised |-> TRUE, msg |-> <<"503 UNAVAILABLE">>, wrote |-> FALSE,
       content |-> MdContent(<<>>)],
      [raised |-> FALSE, msg |-> <<>>, wrote |-> FALSE,
       content |-> MdContent(<<>>)] }
    \cup {[raised |-> FALSE, msg |-> <<>>, wrote |-> TRUE, content |-> c] :
             c \in EngineContents}

\* _handle_report_file: report.md, when there is one, replaces the file at
\* the candidate's report path
MoveReport(md, reps, candidate_name) ==
    IF md.kind = "absent" THEN [md |-> md, reps |-> reps]
    ELSE [md |-> NoReport,
          reps |-> [reps EXCEPT ![sanitize_filename(candidate_name)] = md]]

\* the statements after kickoff: save the token usage, move the report,
\* parse it
AfterKickoff(candidate_name, eng, md, reps) ==
    LET md1 == IF eng.wrote THEN ReportFile(eng.content) ELSE md
        mv == MoveReport(md1, reps, candidate_name)
        p == parse_report(mv.reps[sanitize_filename(candidate_name)],
                          candidate_name)
    IN  [rec |-> IF p.out.raised
                 THEN Record(candidate_name, FALSE, <<p.out.msg>>,
                             NumScore(0), <<"Error">>, <<>>, <<>>, "empty")
                 ELSE p.out.rec,
         md |-> mv.md, reps |-> mv.reps, engine |-> 1,
         trace |-> <<"validate_pdf", "kickoff", "_save_token_usage",
                     "_handle_report_file", "parse_report">>,
         moved |-> md1.kind # "absent",
         prior |-> reps[sanitize_filename(candidate_name)]]

\* Evaluate going on to the report although kickoff raised
EvaluateDespiteRaise(candidate_name, eng, md, reps) ==
    AfterKickoff(candidate_name, eng, md, reps)

\* Evaluate calling the engine a second time after it raised
EvaluateWithRetry(candidate_name, eng, md, reps) ==
    IF eng.raised
    THEN [rec |-> Record(candidate_name, FALSE, eng.msg, NumScore(0),
                         <<"Error">>, <<>>, <<>>, "empty"),
          md |-> md, reps |-> reps, engine |-> 2,
          trace |-> <<"validate_pdf", "kickoff", "kickoff">>,
          moved |-> FALSE,
          prior |-> reps[sanitize_filename(candidate_name)]]
    ELSE AfterKickoff(candidate_name, eng, md, reps)

\* what analyze_single_resume does once the document is accepted
Evaluate(candidate_name, eng, md, reps) ==
    IF eng.raised
    THEN [rec |-> Record(candidate_name, FALSE, eng.msg, NumScore(0),
                         <<"Error">>, <<>>, <<>>, "empty"),
          md |-> md, reps |-> reps, engine |-> 1,
          trace |-> <<"validate_pdf", "kickoff">>,
          moved |-> FALSE,
          prior |-> reps[sanitize_filename(candidate_name)]]
    ELSE AfterKickoff(candidate_name, eng, md, reps)

\* analyze_single_resume ignoring the validator's verdict
analyze_single_resume_unvalidated(candidate_name, pdf, eng, md, reps) ==
    Evaluate(candidate_name, eng, md, reps)

\* analyze_single_resume: the record returned and the files left behind
analyze_single_resume(candidate_name, pdf, eng, md, reps) ==
    IF ~pdf.ok
    THEN [rec |-> Record(candidate_name, FALSE, pdf.msg, NumScore(0),
                         <<"Failed">>, <<>>, <<>>, "empty"),
          md |-> md, reps |-> reps, engine |-> 0,
          trace |-> <<"validate_pdf">>,
          moved |-> FALSE,
          prior |-> reps[sanitize_filename(candidate_name)]]
    ELSE Evaluate(candidate_name, eng, md, reps)

\* what one call of analyze_single_resume showed: the validator's answer,
\* the engine's answer when it was asked, the calls made, the record,
\* whether a report.md was moved to the candidate's report path and the
\* file that was at that path before the call; b is the rubric passed
NotAsked == [raised |-> FALSE, msg |-> <<>>]

Observed(pdf, eng, a, b) ==
    [pdf |-> pdf,
     barem |-> b,
     eng |-> IF a.engine = 0 THEN NotAsked
             ELSE [raised |-> eng.raised, msg |-> eng.msg],
     engine |-> a.engine,
     trace |-> a.trace,
     rec |-> a.rec,
     moved |-> a.moved,
     prior |-> a.prior]

(***************************************************************************)
(* results.sort(key=lambda x: x.get('score', 0), reverse=True)             *)
(***************************************************************************)
CharCode(c) ==
    CASE c = "." -> 46 [] c = "/" -> 47 [] OTHER -> 48 + DigitVal(c)

\* Python's < on two str
RECURSIVE StrLess(_, _)
StrLess(a, b) ==
    IF b = <<>> THEN FALSE
    ELSE IF a = <<>> THEN TRUE
    ELSE IF CharCode(a[1]) # CharCode(b[1]) THEN CharCode(a[1]) < CharCode(b[1])
    ELSE StrLess(Tail(a), Tail(b))

\* < is defined between two numbers and between two strings; any other
\* pair of keys raises TypeError
Comparable(a, b) == a.t = b.t /\ a.t \in {"num", "str"}

KeyLess(a, b) == IF a.t = "num" THEN a.n < b.n ELSE StrLess(a.s, b.s)

SortRaises(rs) ==
    \E i, j \in 1..Len(rs) : i # j /\ ~Comparable(rs[i].r.score, rs[j].r.score)

\* x goes before the first element with a smaller key
InsertDesc(sorted, x) ==
    LET smaller == {i \in 1..Len(sorted) : KeyLess(sorted[i].r.score, x.r.score)}
        at == IF smaller = {} THEN Len(sorted) + 1
              ELSE CHOOSE i \in smaller : \A j \in smaller : i <= j
    IN  SubSeq(sorted, 1, at - 1) \o <<x>> \o SubSeq(sorted, at, Len(sorted))

RECURSIVE SortDesc(_)
SortDesc(rs) ==
    IF rs = <<>> THEN <<>>
    ELSE InsertDesc(SortDesc(SubSeq(rs, 1, Len(rs) - 1)), rs[Len(rs)])

(***************************************************************************)
(* State of one analyze_multiple_resumes call.                             *)
(***************************************************************************)
VARIABLES
    pc,             \* "start", "loop", "aborted", "done" or "raised"
    job,            \* job_title and job_description of the batch
    resume_files,   \* the candidates, in input order
    barem,          \* the rubric of the batch
    idx,            \* candidates processed so far
    results,        \* the records collected, each with its input position
    ret,            \* the list the call returned
    engineRuns,     \* evaluation engine invocations
    reportMd,       \* report.md in the working directory
    reports,        \* report path -> file
    history,        \* per processed candidate: what its collaborators
                    \* answered and the calls analyze_single_resume made
    callback,       \* whether a progress_callback was passed
    progress,       \* the calls progress_callback received
    inputs,         \* the resume files that exist on disk
    baremCalls      \* generate_or_load_barem invocations

batchVars ==
    <<pc, job, resume_files, barem, idx, results, ret, engineRuns, reportMd,
      reports, history, callback, progress, inputs, baremCalls>>

(***************************************************************************)
(* State of the postprocessing of one response text                        *)
(* (_generate_barem_from_gemini, from re.search to the return).            *)
(***************************************************************************)
VARIABLES
    rpc,        \* "ready" or "done"
    rtext,      \* response.text
    rout        \* what the attempt made of it

postVars == <<rpc, rtext, rout>>

NoResult == [kind |-> "nomatch", val |-> NoneVal, msg |-> <<>>]

PostIdle ==
    /\ rpc = "ready"
    /\ rtext = <<>>
    /\ rout = NoResult

InitPost ==
    /\ rpc = "ready"
    /\ rtext \in Responses
    /\ rout = NoResult

ExtractRubric ==
    /\ rpc = "ready"
    /\ rpc' = "done"
    /\ rout' = PostProcess(rtext)
    /\ UNCHANGED rtext

(***************************************************************************)
(* Two get_barem calls for one cache key running side by side              *)
(* (barem_generator.py, get_barem).  Each call is a sequence of steps:     *)
(* the look-up, the generation, open(cache_filename, 'w'), which empties   *)
(* the file, and the write of the buffered text when the file is closed,   *)
(* which lands at the start of the file.  Nothing orders the steps of one  *)
(* call against those of the other.                                        *)
(***************************************************************************)
VARIABLES
    rcpc,        \* position of each call
    rcbarem,     \* the rubric each call generated
    rcret,       \* what each call returned
    cache_file,  \* the cache file both calls name
    writer,      \* the call that wrote to the file last, 0 if none did
    later        \* a call made after both ended: its look-up

raceVars == <<rcpc, rcbarem, rcret, cache_file, writer, later>>

Callers == {1, 2}

\* rubrics the generation gives the two calls
RaceRubrics ==
    { NoneVal, Dict(<<Item("s40")>>), Dict(<<Item("e60")>>),
      Dict(<<Item("e60"), Item("s40")>>) }

NotCalled == [called |-> FALSE, ok |-> FALSE, val |-> NoneVal]

RaceIdle ==
    /\ rcpc = [p \in Callers |-> "idle"]
    /\ rcbarem = [p \in Callers |-> NoneVal]
    /\ rcret = [p \in Callers |-> NoneVal]
    /\ cache_file = AbsentEntry
    /\ writer = 0
    /\ later = NotCalled

InitRace ==
    /\ rcpc = [p \in Callers |-> "lookup"]
    /\ rcbarem = [p \in Callers |-> NoneVal]
    /\ rcret = [p \in Callers |-> NoneVal]
    /\ cache_file = AbsentEntry
    /\ writer = 0
    /\ later = NotCalled

\* a write of text at offset 0 of a file holding old: what lies beyond the
\* written text stays
WriteAtStart(old, text) == text \o SubSeq(old, Len(text) + 1, Len(old))

\* "Try to load from cache"
RaceLookup(p) ==
    /\ rcpc[p] = "lookup"
    /\ IF CacheLoad(cache_file).ok
       THEN /\ rcret' = [rcret EXCEPT ![p] = CacheLoad(cache_file).val]
            /\ rcpc' = [rcpc EXCEPT ![p] = "done"]
       ELSE /\ rcpc' = [rcpc EXCEPT ![p] = "generate"]
            /\ UNCHANGED rcret
    /\ UNCHANGED <<rcbarem, cache_file, writer, later>>

\* "Generate new barem"; a falsy rubric is returned without a write
RaceGenerate(p, g) ==
    /\ rcpc[p] = "generate"
    /\ rcbarem' = [rcbarem EXCEPT ![p] = g]
    /\ IF Truthy(g)
       THEN /\ rcpc' = [rcpc EXCEPT ![p] = "open"]
            /\ UNCHANGED rcret
       ELSE /\ rcpc' = [rcpc EXCEPT ![p] = "done"]
            /\ rcret' = [rcret EXCEPT ![p] = g]
    /\ UNCHANGED <<cache_file, writer, later>>

\* open(cache_filename, 'w')
RaceOpen(p) ==
    /\ rcpc[p] = "open"
    /\ cache_file' = FileEntry(<<>>)
    /\ rcpc' = [rcpc EXCEPT ![p] = "write"]
    /\ UNCHANGED <<rcbarem, rcret, writer, later>>

\* json.dump and the end of the with block, then "return barem"
RaceWrite(p) ==
    /\ rcpc[p] = "write"
    /\ cache_file' =
          FileEntry(WriteAtStart(cache_file.text, JsonDumps(rcbarem[p])))
    /\ writer' = p
    /\ rcret' = [rcret EXCEPT ![p] = rcbarem[p]]
    /\ rcpc' = [rcpc EXCEPT ![p] = "done"]
    /\ UNCHANGED <<rcbarem, later>>

\* the look-up of a get_barem call made after both calls ended
RaceLater ==
    /\ \A p \in Callers : rcpc[p] = "done"
    /\ ~later.called
    /\ later' = [called |-> TRUE, ok |-> CacheLoad(cache_file).ok,
                 val |-> CacheLoad(cache_file).val]
    /\ UNCHANGED <<rcpc, rcbarem, rcret, cache_file, writer>>

vars == <<baremVars, parseVars, batchVars, postVars, raceVars>>

Jobs == {[title |-> <<"A">>, desc |-> "d1"], [title |-> <<"/">>, desc |-> "d2"]}

\* the k-th candidate of a batch: two names that share a report path take
\* turns
Roster(k) == IF k % 2 = 1 THEN <<"x", "/">> ELSE <<"x", "_">>

CandidateLists == {[k \in 1..n |-> Roster(k)] : n \in 0..MaxCands}

\* rubrics the generation service produces in a batch
BatchRubrics ==
    { NoneVal, Dict(<<>>), Dict(<<Item("e60"), Item("s40")>>) }

BatchIdle ==
    /\ pc = "start"
    /\ job = [title |-> <<>>, desc |-> "d1"]
    /\ resume_files = <<>>
    /\ barem = NoneVal
    /\ idx = 0
    /\ results = <<>>
    /\ ret = <<>>
    /\ engineRuns = 0
    /\ reportMd = NoReport
    /\ reports = [p \in ReportPaths |-> NoReport]
    /\ history = <<>>
    /\ callback = FALSE
    /\ progress = <<>>
    /\ inputs = {}
    /\ baremCalls = 0

\* RubricCallsAt with a rubric request in every loop iteration too
RubricCallsAtEveryStage(stage) == IF stage \in {"start", "loop"} THEN 1 ELSE 0

\* the generate_or_load_barem calls analyze_multiple_resumes makes before
\* the loop ("start") and in one loop iteration ("loop")
RubricCallsAt(stage) == IF stage = "start" THEN 1 ELSE 0

(***************************************************************************)
(* Input files (utils/file_handler.py, cleanup_temp_file).  A path is a    *)
(* sequence of characters.                                                 *)
(***************************************************************************)
\* tempfile.gettempdir()
TempDir == <<"/", "t">>

\* resume_path of the k-th candidate: a file in the temporary directory, a
\* file in a directory whose name begins like it, a file elsewhere
ResumePath(k) ==
    IF k % 3 = 1 THEN <<"/", "t", "/", "a">>
    ELSE IF k % 3 = 2 THEN <<"/", "t", "x", "/", "b">>
    ELSE <<"/", "h", "/", "c">>

\* str.startswith
StartsWith(path, prefix) ==
    /\ Len(path) >= Len(prefix)
    /\ SubSeq(path, 1, Len(prefix)) = prefix

\* cleanup_temp_file: the files that exist afterwards
cleanup_temp_file(existing, file_path) ==
    IF file_path \in existing /\ StartsWith(file_path, TempDir)
    THEN existing \ {file_path}
    ELSE existing

\* progress_callback(idx, total_files, candidate_name), with the number of
\* records collected when it is called
ProgressCall(index, total, candidate_name, collected) ==
    [index |-> index, total |-> total, name |-> candidate_name,
     collected |-> collected]

\* ShouldAbort as "if barem == {}"
ShouldAbortOnEmptyDict(b) == b.t = "dict" /\ Len(b.m) = 0

\* "if not barem"
ShouldAbort(b) == ~Truthy(b)

\* the end of analyze_multiple_resumes: sort, save the summary, return
FinishBatch(rs) ==
    IF SortRaises(rs)
    THEN /\ pc' = "raised"
         /\ results' = rs
         /\ ret' = <<>>
    ELSE /\ pc' = "done"
         /\ results' = SortDesc(rs)
         /\ ret' = SortDesc(rs)

\* analyze_multiple_resumes up to the first candidate:
\* generate_or_load_barem, then abort or enter the loop
StartBatch(files, j, g, w, cb) ==
    /\ pc = "start"
    /\ job' = j
    /\ callback' = cb
    /\ baremCalls' = baremCalls + RubricCallsAt("start")
    /\ inputs' = {ResumePath(k) : k \in 1..Len(files)}
    /\ resume_files' = files
    /\ LET key == _sanitize_job_title(j.title)
           ld == CacheLoad(cache[key])
           b == IF ld.ok THEN ld.val ELSE g
       IN  /\ barem' = b
           /\ cache' = IF ld.ok THEN cache ELSE SaveBarem(cache, key, g, w)
           /\ IF ShouldAbort(b)
              THEN /\ pc' = "aborted"
                   /\ UNCHANGED <<results, ret>>
              ELSE IF files = <<>> THEN FinishBatch(<<>>)
              ELSE /\ pc' = "loop"
                   /\ UNCHANGED <<results, ret>>
    /\ UNCHANGED <<idx, engineRuns, reportMd, reports, history, progress>>

\* one iteration of the loop; after the last one the call sorts and returns
AnalyzeNext(pdf, eng) ==
    /\ pc = "loop"
    /\ idx < Len(resume_files)
    /\ progress' = IF callback
                   THEN Append(progress,
                               ProgressCall(idx, Len(resume_files),
                                            resume_files[idx + 1], Len(results)))
                   ELSE progress
    /\ inputs' = cleanup_temp_file(inputs, ResumePath(idx + 1))
    /\ baremCalls' = baremCalls + RubricCallsAt("loop")
    /\ LET a == analyze_single_resume(resume_files[idx + 1], pdf, eng,
                                      reportMd, reports)
           rs == Append(results, [i |-> idx + 1, r |-> a.rec])
       IN  /\ reportMd' = a.md
           /\ reports' = a.reps
           /\ engineRuns' = engineRuns + a.engine
           /\ history' = Append(history, Observed(pdf, eng, a, barem))
           /\ idx' = idx + 1
           /\ IF idx + 1 = Len(resume_files) THEN FinishBatch(rs)
              ELSE /\ results' = rs
                   /\ UNCHANGED <<pc, ret>>
    /\ UNCHANGED <<job, resume_files, barem, cache, callback>>

(***************************************************************************)
(* Specifications.                                                         *)
(***************************************************************************)
NextBarem ==
    \/ \E t \in Titles, d \in Descriptions :
          GetBaremStart(t, d) /\ UNCHANGED <<parseVars, batchVars, postVars, raceVars>>
    \/ Attempt /\ UNCHANGED <<parseVars, batchVars, postVars, raceVars>>
    \/ NextCall /\ UNCHANGED <<parseVars, batchVars, postVars, raceVars>>

InitBaremOnly ==
    /\ InitBarem
    /\ RaceIdle
    /\ ParseIdle
    /\ BatchIdle
    /\ PostIdle

SpecBarem == InitBaremOnly /\ [][NextBarem]_vars

InitParseOnly ==
    /\ InitParse
    /\ RaceIdle
    /\ BatchIdle
    /\ PostIdle
    /\ apiKey = TRUE
    /\ cache = [k \in Keys |-> AbsentEntry]
    /\ stored = [k \in Keys |-> NotStored]
    /\ BaremIdle

NextParse ==
    ParseReport /\ UNCHANGED <<baremVars, batchVars, postVars, raceVars>>

SpecParse == InitParseOnly /\ [][NextParse]_vars

\* cache directories a batch may find
BatchCaches ==
    { [k \in Keys |-> AbsentEntry],
      [k \in Keys |-> IF k = <<"a">> THEN FileEntry(<<"null">>) ELSE AbsentEntry],
      [k \in Keys |-> IF k = <<"a">>
                      THEN FileEntry(<<"{", "e60", ",", "s40", "}">>)
                      ELSE AbsentEntry] }

Init ==
    /\ BatchIdle
    /\ RaceIdle
    /\ ParseIdle
    /\ PostIdle
    /\ apiKey = TRUE
    /\ cache \in BatchCaches
    /\ stored = [k \in Keys |-> NotStored]
    /\ BaremIdle

BatchUnchanged ==
    UNCHANGED <<parseVars, postVars, raceVars, apiKey, bpc, btitle, bdesc, attempt,
                genCalls, log, delays, result, served, cache0, stored>>

InitPostOnly ==
    /\ InitPost
    /\ RaceIdle
    /\ ParseIdle
    /\ BatchIdle
    /\ apiKey = TRUE
    /\ cache = [k \in Keys |-> AbsentEntry]
    /\ stored = [k \in Keys |-> NotStored]
    /\ BaremIdle

NextPost ==
    ExtractRubric /\ UNCHANGED <<baremVars, parseVars, batchVars, raceVars>>

SpecPost == InitPostOnly /\ [][NextPost]_vars

InitRaceOnly ==
    /\ InitRace
    /\ ParseIdle
    /\ BatchIdle
    /\ PostIdle
    /\ apiKey = TRUE
    /\ cache = [k \in Keys |-> AbsentEntry]
    /\ stored = [k \in Keys |-> NotStored]
    /\ BaremIdle

RaceUnchanged == UNCHANGED <<baremVars, parseVars, batchVars, postVars>>

NextRace ==
    \/ \E p \in Callers : RaceLookup(p) /\ RaceUnchanged
    \/ \E p \in Callers, g \in RaceRubrics : RaceGenerate(p, g) /\ RaceUnchanged
    \/ \E p \in Callers : RaceOpen(p) /\ RaceUnchanged
    \/ \E p \in Callers : RaceWrite(p) /\ RaceUnchanged
    \/ RaceLater /\ RaceUnchanged

SpecRace == InitRaceOnly /\ [][NextRace]_vars

Next ==
    \/ \E files \in CandidateLists, j \in Jobs, g \in BatchRubrics,
          w \in WriteOutcomes, cb \in BOOLEAN :
          StartBatch(files, j, g, w, cb) /\ BatchUnchanged
    \/ \E pdf \in PdfOutcomes, eng \in EngineOutcomes :
          AnalyzeNext(pdf, eng) /\ BatchUnchanged

Spec == Init /\ [][Next]_vars

(***************************************************************************)
(* Properties of the rubric generator, checked under SpecBarem.            *)
(***************************************************************************)
AllOverload(l) == \A i \in 1..Len(l) : l[i] = "overload"

\* equality of two rubric values as Python compares dicts: same items,
\* whatever their order
SameDict(a, b) ==
    /\ a.t = b.t
    /\ {a.m[i] : i \in 1..Len(a.m)} = {b.m[i] : i \in 1..Len(b.m)}

\* C4: an attempt of the retry loop is followed by another attempt only
\* when it failed with an overload-classified error; after any other
\* failure no further attempt is made.
C4_RetryOnlyOnOverload ==
    \A i \in 1..(Len(log) - 1) : log[i] = "overload"

\* C5: a get_barem call makes at most 3 generation attempts, and when all
\* 3 fail with an overload-classified error it returns None after exactly
\* 2 sleeps and leaves the cache as it was.
C5_ThreeAttemptsTwoDelays ==
    /\ attempt < max_retries
    /\ Len(log) <= max_retries
    /\ genCalls <= max_retries
    /\ (bpc = "returned" /\ Len(log) = max_retries /\ AllOverload(log)) =>
          /\ result = NoneVal
          /\ Len(delays) = max_retries - 1
          /\ cache = cache0

C5_Witness ==
    /\ bpc = "returned"
    /\ log = <<"overload", "overload", "overload">>
    /\ genCalls = 3

\* the call failed twice with an overload error and succeeded the third time
TwoOverloadsThenOk ==
    /\ bpc = "returned"
    /\ log = <<"overload", "overload", "ok">>

\* C6 as amended: after two overload failures and a success the call returns
\* the parsed rubric and has slept exactly twice, the sleep after attempt i
\* (0-indexed) lasting at least base_delay * 2^i and at most
\* base_delay * 2^i + 1 seconds (the floating-point sum can round up to the
\* upper end).
C6_BackoffDelaysClosed ==
    TwoOverloadsThenOk =>
        /\ result.t = "dict"
        /\ Len(delays) = 2
        /\ \A i \in 1..Len(delays) :
              /\ delays[i] >= base_delay * Pow2(i - 1) * Second
              /\ delays[i] <= (base_delay * Pow2(i - 1) + 1) * Second

C6_Witness ==
    /\ TwoOverloadsThenOk
    /\ Truthy(result)
    /\ delays[1] > base_delay * Second
    /\ delays[2] = 2 * base_delay * Second

\* C6 as stated: the same, with every sleep strictly shorter than
\* base_delay * 2^i + 1 seconds.
C6_BackoffDelaysHalfOpen ==
    TwoOverloadsThenOk =>
        /\ result.t = "dict"
        /\ Len(delays) = 2
        /\ \A i \in 1..Len(delays) :
              /\ delays[i] >= base_delay * Pow2(i - 1) * Second
              /\ delays[i] < (base_delay * Pow2(i - 1) + 1) * Second

\* the entry under the normalized title held JSON when the call started
EntryHeldJson ==
    /\ cache0[CallKey].kind = "file"
    /\ JsonLoads(cache0[CallKey].text).ok

\* C7: when the cache entry under the normalized title holds valid JSON,
\* get_barem returns the content of that entry without any generation
\* attempt, whatever the job description.
C7_CacheHitServedAsIs ==
    (bpc = "returned" /\ EntryHeldJson) =>
        /\ result = JsonLoads(cache0[CallKey].text).val
        /\ served = "cache"
        /\ genCalls = 0
        /\ log = <<>>
        /\ delays = <<>>

C7_Witness ==
    /\ bpc = "returned"
    /\ EntryHeldJson
    /\ btitle = <<"A">>
    /\ bdesc = "d2"
    /\ Truthy(result)

\* C8: once a call has generated a rubric and persisted it, every later
\* call for a title with the same key returns an equal rubric and does not
\* invoke the generation service.
C8_CacheRoundTrip ==
    (bpc = "returned" /\ stored[CallKey].set) =>
        /\ SameDict(result, stored[CallKey].val)
        /\ served = "cache"
        /\ genCalls = 0

C8_Witness ==
    /\ bpc = "returned"
    /\ stored[CallKey].set
    /\ Len(result.m) = 2
    /\ served = "cache"

\* the sum of the section weights of a rubric
RECURSIVE WeightSum(_)
WeightSum(items) ==
    IF items = <<>> THEN 0 ELSE items[1].w + WeightSum(Tail(items))

\* C16: every rubric other than None that get_barem returns, loaded or
\* generated, has section weights that sum to 100.
C16_WeightsSumTo100 ==
    (bpc = "returned" /\ result.t = "dict") => WeightSum(result.m) = 100

\* the entry under the key of the running call exists but cannot be read
\* or does not hold JSON
EntryCorrupt ==
    /\ cache0[CallKey].kind # "absent"
    /\ ~(cache0[CallKey].kind = "file" /\ JsonLoads(cache0[CallKey].text).ok)

\* C18: get_barem ends by returning, never by raising.  An entry that
\* exists but cannot be read or parsed is not served: the call goes through
\* the generation loop as for a missing entry.  A rubric produced by the
\* last attempt is returned whether or not the cache write succeeded.
C18_CacheErrorsNonFatal ==
    /\ bpc \in {"idle", "gen", "returned"}
    /\ (bpc # "idle" /\ EntryCorrupt) =>
          /\ served # "cache"
          /\ bpc = "returned" => (served = "generated" /\ Len(log) >= 1)
    /\ (bpc = "returned" /\ served = "generated" /\ log # <<>>
                         /\ log[Len(log)] = "ok") =>
          /\ result.t = "dict"
          /\ Truthy(result) =>
                cache[CallKey] \in
                    { FileEntry(JsonDumps(result)), cache0[CallKey],
                      FileEntry(SubSeq(JsonDumps(result), 1, 1)) }

C18_Witness ==
    /\ bpc = "returned"
    /\ cache0[CallKey] = UnreadableEntry
    /\ served = "generated"
    /\ Len(result.m) = 2
    /\ cache[CallKey] = UnreadableEntry

(***************************************************************************)
(* Properties of the response postprocessing, checked under SpecPost.      *)
(***************************************************************************)
\* the position of the "}" that closes the object opened before position
\* i, depth braces being open at i (0: none)
RECURSIVE BalancedEnd(_, _, _)
BalancedEnd(text, i, depth) ==
    IF i > Len(text) THEN 0
    ELSE IF text[i] = "{" THEN BalancedEnd(text, i + 1, depth + 1)
    ELSE IF text[i] = "}"
         THEN IF depth = 1 THEN i ELSE BalancedEnd(text, i + 1, depth - 1)
    ELSE BalancedEnd(text, i + 1, depth)

\* the first balanced {...} span of a text
FirstBalanced(text) ==
    LET opens == {i \in 1..Len(text) : text[i] = "{"} IN
    IF opens = {} THEN [found |-> FALSE, span |-> <<>>, end |-> 0]
    ELSE LET i == CHOOSE x \in opens : \A y \in opens : x <= y
             j == BalancedEnd(text, i + 1, 1)
         IN  IF j = 0 THEN [found |-> FALSE, span |-> <<>>, end |-> 0]
             ELSE [found |-> TRUE, span |-> SubSeq(text, i, j), end |-> j]

\* C17: when the first balanced {...} span of the response is a JSON
\* object, the attempt returns the parse of that span, whatever follows it.
C17_FirstBalancedSpan ==
    (rpc = "done" /\ FirstBalanced(rtext).found
                  /\ JsonLoads(FirstBalanced(rtext).span).ok) =>
        /\ rout.kind = "ok"
        /\ rout.val = JsonLoads(FirstBalanced(rtext).span).val

(***************************************************************************)
(* Properties of the report parser, checked under SpecParse.               *)
(***************************************************************************)
\* a JSON document that is no object, or one of whose sections is null or
\* of the wrong type
DocMalformed(doc) ==
    \/ doc.top # "dict"
    \/ doc.es.t \in {"null", "str"}
    \/ doc.sd.t \in {"null", "str"}
    \/ doc.gd.t \in {"null", "str"}
    \/ \E f \in {doc.sd.first, doc.sd.second, doc.gd.first, doc.gd.second} :
          f.t \in {"null", "num"}

\* the cases in which parse_report cannot produce an evaluation
ParseFailed(file) ==
    \/ file.kind # "file"
    \/ file.content.json /\ DocMalformed(file.content.doc)

\* C9: parse_report never raises to its caller; for a missing or
\* unreadable file and for JSON that is no object or has null or ill-typed
\* sections it returns a record with valid = False and a non-empty error.
C9_ParseNeverRaises ==
    ppc = "done" =>
        /\ ~pout.out.raised
        /\ ParseFailed(pfile) =>
              /\ ~pout.out.rec.valid
              /\ pout.out.rec.error # <<>>

C9_Witness ==
    /\ ppc = "done"
    /\ pfile.kind = "file"
    /\ pfile.content.json
    /\ pfile.content.doc.top = "dict"
    /\ pfile.content.doc.es.t = "null"
    /\ ~pout.out.rec.valid
    /\ pout.out.rec.error =
          <<"Error parsing report: ", "'NoneType' object has no attribute 'get'">>

\* C10: for a report file that does not exist parse_report returns
\* valid = False, error "Report file not found" and score 0, and takes
\* neither the structured nor the free-text path.
C10_MissingReport ==
    (ppc = "done" /\ pfile.kind = "absent") =>
        /\ ~pout.out.raised
        /\ ~pout.out.rec.valid
        /\ pout.out.rec.error = <<"Report file not found">>
        /\ pout.out.rec.score = NumScore(0)
        /\ pout.paths = {}

C10_Witness ==
    /\ ppc = "done"
    /\ pfile.kind = "absent"
    /\ pout.out.rec.error = <<"Report file not found">>
    /\ pout.out.rec.candidate_name = pname

\* C11: a report whose content parses as JSON takes the structured path and
\* only it, whatever free-text patterns its text matches; any other content
\* takes the free-text path and only it.
C11_FormatDetection ==
    (ppc = "done" /\ pfile.kind = "file") =>
        /\ pfile.content.json =>
              /\ pout.paths = {"json"}
              /\ pout.out.rec.valid =>
                    /\ pout.out.rec.report_content = "dumps"
                    /\ pfile.content.doc.own.score.t = "missing" =>
                          pout.out.rec.score =
                              GetOr(pfile.content.doc.es.score, NumScore(0))
        /\ ~pfile.content.json =>
              /\ pout.paths = {"markdown"}
              /\ pout.out.rec.report_content = "raw"
              /\ pout.out.rec.score =
                    NumScore(_extract_score(pfile.content.lines))

C11_Witness ==
    /\ ppc = "done"
    /\ pfile.kind = "file"
    /\ pfile.content.json
    /\ _extract_score(pfile.content.lines) = 950
    /\ pout.paths = {"json"}
    /\ pout.out.rec.score = NumScore(90)

\* a structured report whose sections and sub-fields are each absent or of
\* the expected type
KeysAbsentOrTyped(doc) ==
    /\ doc.top = "dict"
    /\ doc.es.t \in {"missing", "dict"}
    /\ doc.sd.t \in {"missing", "dict"}
    /\ doc.gd.t \in {"missing", "dict"}
    /\ \A f \in {doc.sd.first, doc.sd.second, doc.gd.first, doc.gd.second} :
          f.t \in {"missing", "list"}

\* the record is valid and holds the default of every absent value
DefaultsForAbsent(doc, out) ==
    /\ ~out.raised
    /\ out.rec.valid = TRUE
    /\ doc.es.score.t = "missing" => out.rec.score = NumScore(0)
    /\ doc.es.rec.t = "missing" => out.rec.recommendation = <<"Unknown">>
    /\ doc.sd.t = "missing" => out.rec.strengths = <<>>
    /\ doc.gd.t = "missing" => out.rec.gaps = <<>>

\* C25 as stated: a structured report in which any of executive_summary,
\* strengths_and_differentiators, gaps_and_risk_assessment and their
\* sub-fields is absent gives a valid record with the absent values defaulted
\* (score 0, recommendation "Unknown", no strengths, no gaps)
C25_MissingKeysDefaulted ==
    (/\ ppc = "done"
     /\ pfile.kind = "file"
     /\ pfile.content.json
     /\ KeysAbsentOrTyped(pfile.content.doc))
        => DefaultsForAbsent(pfile.content.doc, pout.out)

\* C25, amended: a structured report with no top-level key named like a
\* field of the record, in which any of executive_summary,
\* strengths_and_differentiators, gaps_and_risk_assessment and their
\* sub-fields is absent, gives a valid record with the absent values
\* defaulted (score 0, recommendation "Unknown", no strengths, no gaps)
C25_MissingKeysDefaultedUnlessOverwritten ==
    (/\ ppc = "done"
     /\ pfile.kind = "file"
     /\ pfile.content.json
     /\ KeysAbsentOrTyped(pfile.content.doc)
     /\ pfile.content.doc.own = NoOwn)
        => DefaultsForAbsent(pfile.content.doc, pout.out)

\* the report {} : every section absent, every field defaulted
C25_Witness ==
    /\ ppc = "done"
    /\ pfile.kind = "file"
    /\ pfile.content.json
    /\ pfile.content.doc.top = "dict"
    /\ pfile.content.doc.es = NoSection
    /\ pfile.content.doc.sd = NoListSection
    /\ pfile.content.doc.gd = NoListSection
    /\ pfile.content.doc.own = NoOwn
    /\ pout.out.rec.valid = TRUE
    /\ pout.out.rec.score = NumScore(0)
    /\ pout.out.rec.recommendation = <<"Unknown">>
    /\ pout.out.rec.strengths = <<>>
    /\ pout.out.rec.gaps = <<>>

\* C26: when the structured path returns a record, the record holds under
\* every top-level key of the report the report's value, also under a key
\* named like a field of the record (score, valid), whose extracted value
\* is overwritten
C26_PayloadMergedLastWriteWins ==
    (/\ ppc = "done"
     /\ pfile.kind = "file"
     /\ pfile.content.json
     /\ ~pout.out.raised
     /\ pout.out.rec.report_content = "dumps")
        => /\ pout.out.rec.extra.es = pfile.content.doc.es
           /\ pout.out.rec.extra.sd = pfile.content.doc.sd
           /\ pout.out.rec.extra.gd = pfile.content.doc.gd
           /\ pfile.content.doc.own.score.t # "missing" =>
                 pout.out.rec.score = pfile.content.doc.own.score
           /\ pfile.content.doc.own.valid = "false" =>
                 pout.out.rec.valid = FALSE

\* a report with overall_score 90 in executive_summary and a top-level
\* score 30: the record holds 30
C26_Witness ==
    /\ ppc = "done"
    /\ pfile.kind = "file"
    /\ pfile.content.json
    /\ pfile.content.doc.es.score = NumScore(90)
    /\ pfile.content.doc.own.score = NumScore(30)
    /\ pout.out.rec.report_content = "dumps"
    /\ pout.out.rec.score = NumScore(30)

\* the patterns whose first match in the text has a capture float() accepts
ParsingPatterns(lines) ==
    {k \in 1..Len(ScorePatterns) :
        /\ FirstMatch(ScorePatterns[k], lines) # 0
        /\ FloatOk(lines[FirstMatch(ScorePatterns[k], lines)].cap)}

\* C19: the score of a free-text report is the value of the capture of the
\* first pattern, in list order, that matches with a capture float()
\* accepts, patterns matching a malformed capture being passed over, and
\* 0.0 when there is no such pattern; "**Overall Score:** 7.5/10" gives 7.5.
C19_FirstParsingPatternWins ==
    (ppc = "done" /\ pfile.kind = "file" /\ ~pfile.content.json) =>
        LET lines == pfile.content.lines
            ok == ParsingPatterns(lines)
        IN  /\ ok = {} => pout.out.rec.score = NumScore(0)
            /\ ok # {} =>
                  LET k == CHOOSE x \in ok : \A y \in ok : x <= y IN
                  pout.out.rec.score =
                      NumScore(Tenths(lines[FirstMatch(ScorePatterns[k],
                                                       lines)].cap))
            /\ lines = <<Line("**Overall Score:**", <<"7", ".", "5">>, TRUE)>> =>
                  pout.out.rec.score = NumScore(75)

C19_Witness ==
    /\ ppc = "done"
    /\ pfile.kind = "file"
    /\ pfile.content.lines =
          << Line("Final Combined Score:", <<"1", ".", "2", ".", "3">>, TRUE),
             Line("## Final Combined Score", <<"8">>, FALSE) >>
    /\ pout.out.rec.score = NumScore(80)

\* C14: the record parse_report returns has a numeric score between 0 and
\* 10 (0 and 100 tenths).
C14_ScoreInRange ==
    ppc = "done" =>
        /\ pout.out.rec.score.t = "num"
        /\ pout.out.rec.score.n >= 0
        /\ pout.out.rec.score.n <= 100

(***************************************************************************)
(* Properties of the batch, checked under Spec.                            *)
(***************************************************************************)
\* the number a score stands for, in tenths
ScoreValue(x) ==
    IF x.r.score.t = "num" THEN x.r.score.n
    ELSE IF x.r.score.t = "str" THEN Tenths(x.r.score.s)
    ELSE 0

\* C1: the list a batch returns is sorted by score, highest first, records
\* of equal score in input order.
C1_SortedStable ==
    pc = "done" =>
        \A a, b \in 1..Len(ret) :
            a < b =>
               \/ ScoreValue(ret[a]) > ScoreValue(ret[b])
               \/ /\ ScoreValue(ret[a]) = ScoreValue(ret[b])
                  /\ ret[a].i < ret[b].i

\* C2: when the rubric is None the batch returns an empty list and no
\* candidate is validated, evaluated or parsed.
C2_AbortWithoutRubric ==
    (pc # "start" /\ barem = NoneVal) =>
        /\ pc = "aborted"
        /\ ret = <<>>
        /\ results = <<>>
        /\ idx = 0
        /\ engineRuns = 0
        /\ reportMd = NoReport
        /\ \A p \in ReportPaths : reports[p] = NoReport

C2_Witness ==
    /\ pc = "aborted"
    /\ barem = NoneVal
    /\ Len(resume_files) >= 2
    /\ ret = <<>>

\* C3: once a rubric is obtained the batch returns normally, with exactly
\* one record per input candidate, whatever happens to each candidate.
C3_BatchNeverHalts ==
    /\ pc # "raised"
    /\ pc = "done" =>
          /\ Len(ret) = Len(resume_files)
          /\ \A k \in 1..Len(resume_files) :
                Cardinality({a \in 1..Len(ret) : ret[a].i = k}) = 1

\* C12: a candidate whose document the validator rejects gets a record
\* with valid = False, the validation message as error, score 0 and
\* recommendation "Failed", and nothing after the validation is called for
\* it: no engine run, no report moved, no report parsed.
C12_InvalidDocumentShortCircuits ==
    /\ Len(history) = idx
    /\ \A k \in 1..Len(history) :
          ~history[k].pdf.ok =>
              /\ history[k].rec =
                    Record(resume_files[k], FALSE, history[k].pdf.msg,
                           NumScore(0), <<"Failed">>, <<>>, <<>>, "empty")
              /\ history[k].engine = 0
              /\ history[k].trace = <<"validate_pdf">>
    /\ engineRuns = Cardinality({k \in 1..Len(history) : history[k].pdf.ok})
    /\ (\A k \in 1..Len(history) : ~history[k].pdf.ok) =>
          /\ reportMd = NoReport
          /\ \A p \in ReportPaths : reports[p] = NoReport

C12_Witness ==
    /\ Len(history) = 2
    /\ history[1].pdf.ok
    /\ history[1].engine = 1
    /\ ~history[2].pdf.ok
    /\ history[2].pdf.msg = <<"PDF validation failed: ", "EOF marker not found">>
    /\ history[2].rec.recommendation = <<"Failed">>
    /\ engineRuns = 1

\* C13: when the engine call raises, analyze_single_resume returns a
\* record with valid = False, score 0, recommendation "Error" and the
\* exception message as error; the report is neither moved nor parsed and
\* the files are left as they were.
C13_EngineExceptionRecord ==
    \A k \in 1..Len(history) :
        history[k].eng.raised =>
            /\ history[k].rec =
                  Record(resume_files[k], FALSE, history[k].eng.msg,
                         NumScore(0), <<"Error">>, <<>>, <<>>, "empty")
            /\ history[k].trace = <<"validate_pdf", "kickoff">>
            /\ history[k].engine = 1

C13_Witness ==
    /\ pc = "done"
    /\ Len(history) = 2
    /\ history[1].eng.raised
    /\ history[1].rec.error = <<"503 UNAVAILABLE">>
    /\ history[2].rec.valid
    /\ history[2].trace[Len(history[2].trace)] = "parse_report"

\* C15: in the list a batch returns every record with valid = False has
\* score 0 and none of them comes before a record with valid = True.
C15_FailuresRankedLast ==
    pc = "done" =>
        /\ \A a \in 1..Len(ret) :
              ~ret[a].r.valid => ret[a].r.score = NumScore(0)
        /\ \A a, b \in 1..Len(ret) :
              (a < b /\ ret[b].r.valid) => ret[a].r.valid

\* the calls of a candidate that ended Invalid, in Error, or after Parsing
InvalidTrace == <<"validate_pdf">>

ErrorTrace == <<"validate_pdf", "kickoff">>

ParsedTrace ==
    <<"validate_pdf", "kickoff", "_save_token_usage", "_handle_report_file",
      "parse_report">>

\* the part of C20 that does not depend on what the parser returns: one
\* terminal state per candidate, at most one engine call, parsing only
\* after a successful engine call
CandidatePath(h) ==
    /\ h.trace \in {InvalidTrace, ErrorTrace, ParsedTrace}
    /\ h.engine = Cardinality({i \in 1..Len(h.trace) : h.trace[i] = "kickoff"})
    /\ h.engine <= 1
    /\ h.trace = InvalidTrace =>
          (~h.pdf.ok /\ ~h.rec.valid /\ h.rec.recommendation = <<"Failed">>)
    /\ h.trace = ErrorTrace =>
          (h.pdf.ok /\ h.eng.raised /\ ~h.rec.valid
             /\ h.rec.recommendation = <<"Error">>)
    /\ h.trace = ParsedTrace => (h.pdf.ok /\ ~h.eng.raised)

C21_ProgressAfterEachCandidate ==
    callback =>
        /\ Len(progress) = idx
        /\ \A k \in 1..Len(progress) :
              /\ progress[k].index = k - 1
              /\ progress[k].total = Len(resume_files)
              /\ progress[k].name = resume_files[k]
              /\ progress[k].collected >= k

\* a path lies inside a directory
IsUnder(path, dir) == StartsWith(path, dir \o <<"/">>)

\* C22: once a candidate has been processed its input file is gone if it
\* lies in the temporary directory and is still there otherwise; the files
\* of the candidates not yet processed are all there.
C22_TempFilesCleaned ==
    pc \in {"loop", "done", "raised"} =>
        \A k \in 1..Len(resume_files) :
            IF k <= idx /\ IsUnder(ResumePath(k), TempDir)
            THEN ResumePath(k) \notin inputs
            ELSE ResumePath(k) \in inputs

\* C23: two candidates of one batch never get the same report path, and a
\* report moved to its path never replaces the report of another candidate.
C23_ReportPathsDistinct ==
    /\ \A j, k \in 1..Len(history) :
          j # k =>
             sanitize_filename(resume_files[j]) # sanitize_filename(resume_files[k])
    /\ \A k \in 1..Len(history) :
          history[k].moved => history[k].prior = NoReport

\* C24: a batch requests the rubric once, before any candidate is
\* processed, never again, and passes that rubric to every candidate.
C24_RubricRequestedOnce ==
    /\ pc = "start" => (baremCalls = 0 /\ history = <<>>)
    /\ pc # "start" =>
          /\ baremCalls = 1
          /\ \A k \in 1..Len(history) : history[k].barem = barem

C24_Witness ==
    /\ pc = "done"
    /\ Len(history) >= 2
    /\ baremCalls = 1
    /\ Truthy(barem)
    /\ history[2].barem = barem
    /\ history[2].engine = 1

\* C27: when two get_barem calls for one key without a cache entry have both
\* generated and ended, each returned its own rubric, the cache file holds
\* the rubric of the call that wrote last, and a later call is served that
\* rubric from the cache
C27_LastWriterWins ==
    (/\ \A p \in Callers : rcpc[p] = "done"
     /\ \A p \in Callers : Truthy(rcbarem[p]))
        => /\ \A p \in Callers : rcret[p] = rcbarem[p]
           /\ cache_file = FileEntry(JsonDumps(rcbarem[writer]))
           /\ later.called => (later.ok /\ later.val = rcbarem[writer])


\* C28: the record parse_report returns, which analyze_single_resume
\* returns as the candidate's record, carries the candidate_name that was
\* passed in, whatever the report (missing, free text, structured)
C28_RecordKeepsInputName ==
    (ppc = "done" /\ ~pout.out.raised) => pout.out.rec.candidate_name = pname


\* C29: a candidate whose engine call returned without leaving a report.md
\* gets the invalid "Report file not found" record, also when an earlier
\* candidate or run left a file at the candidate's report path
C29_OwnReportOnly ==
    \A k \in 1..Len(history) :
        (history[k].trace = ParsedTrace /\ ~history[k].moved) =>
            /\ ~history[k].rec.valid
            /\ history[k].rec.error = <<"Report file not found">>


\* C30: get_barem changes no cache entry while the generation runs, none
\* when it serves the cache, none when the generation failed or gave null
\* or an empty object (a corrupt entry stays as it was), and never an entry
\* under another key than the normalized key of the requested title
C30_CacheWrittenOnlyOnSuccess ==
    /\ bpc = "gen" => cache = cache0
    /\ bpc \in {"gen", "returned"} =>
          \A k \in Keys \ {CallKey} : cache[k] = cache0[k]
    /\ (bpc = "returned" /\ served = "cache") => cache = cache0
    /\ (bpc = "returned" /\ served = "generated" /\ ~Truthy(result)) =>
          cache = cache0

\* a call that found a corrupt entry, generated an empty object and left
\* the entry as it was
C30_Witness ==
    /\ bpc = "returned"
    /\ served = "generated"
    /\ result = Dict(<<>>)
    /\ cache0[CallKey] = FileEntry(<<"{">>)
    /\ cache = cache0


=============================================================================
